---- MODULE Spec2Model ----
(***************************************************************************)
(* Procedural mesh generation of personal-wgpu-demos: Vertex, get_middle!, *)
(* Mesh::brick, Mesh::sphere, Mesh::geo_sphere and Mesh::subdivide         *)
(* (src/src/model/vertex.rs, src/src/model/mesh.rs), and the frame clock   *)
(* Timer (src/src/timer.rs) and the input state Controller                 *)
(* (src/src/controller.rs) of the application.                             *)
(*                                                                         *)
(* An f32 is modelled as a fixed-point integer: the f32 value x is the     *)
(* integer x * One.  The inputs are chosen on a grid on which the f32      *)
(* additions and halvings of get_middle! are exact, so that the integer    *)
(* arithmetic below gives the very values the f32 arithmetic gives.        *)
(* Products, quotients, square roots and the trigonometric functions of    *)
(* sphere and of the geo_sphere post-process are rounded to the grid.      *)
(* Sequences are 1-based here and 0-based in the source: the source's      *)
(* indices[k] is indices[k + 1] below; index VALUES stay 0-based.          *)
(***************************************************************************)
EXTENDS Integers, Sequences, FiniteSets, TLC

\* ------------------------------------------------------------------ bounds
MaxSubdivision == 2
MaxSlice == 8
MaxStack == 4
MaxTriangle == 2

\* ------------------------------------------------------------------- f32
\* the fixed-point image of the f32 value 1.0
One == 4096

Abs(x) == IF x < 0 THEN -x ELSE x

\* f32 multiplication, rounded to the nearest grid value
FMul(a, b) ==
    LET p == Abs(a) * Abs(b)
        q == (p + One \div 2) \div One
    IN  IF (a < 0) = (b < 0) THEN q ELSE -q

\* f32 division, rounded to the nearest grid value (b # 0)
FDiv(a, b) ==
    LET p == Abs(a) * One
        q == (p + Abs(b) \div 2) \div Abs(b)
    IN  IF (a < 0) = (b < 0) THEN q ELSE -q

\* x / 2.0 (and 0.5 * x): exact in f32
Half(x) == IF x < 0 THEN -((-x) \div 2) ELSE x \div 2

\* cgmath: Vector + Vector and Vector / 2.0, componentwise
VecAdd(a, b) == [k \in DOMAIN a |-> a[k] + b[k]]
VecHalf(a) == [k \in DOMAIN a |-> Half(a[k])]
VecSub(a, b) == [k \in DOMAIN a |-> a[k] - b[k]]

\* the image of an f32 NaN (0.0 / 0.0, acos outside [-1, 1])
NaN == -(2^30)

\* f32::consts::PI and f32::consts::TAU on the grid
PI == 12868
TAU == 25736

RECURSIVE ISqrtBisect(_, _, _)
ISqrtBisect(n, lo, hi) ==
    IF hi - lo <= 1 THEN lo
    ELSE LET mid == (lo + hi) \div 2
         IN  IF mid * mid <= n THEN ISqrtBisect(n, mid, hi) ELSE ISqrtBisect(n, lo, mid)

\* the integer square root of n, 0 <= n < 2^30
ISqrt(n) == ISqrtBisect(n, 0, 32768)

\* InnerSpace::magnitude of a 3-vector
Magnitude(v) == ISqrt(v[1] * v[1] + v[2] * v[2] + v[3] * v[3])

\* InnerSpace::normalize: v / |v| (NaN in every component for the zero vector)
Normalize(v) ==
    LET mag == Magnitude(v)
    IN  IF mag = 0 THEN [k \in DOMAIN v |-> NaN]
        ELSE [k \in DOMAIN v |-> FDiv(v[k], mag)]

\* a / n for an integer n > 0, rounded to the nearest grid value
RDiv(a, n) == IF a < 0 THEN -((-a + n \div 2) \div n) ELSE (a + n \div 2) \div n

\* f32::sin for -PI/2 <= x <= PI/2, by its Taylor polynomial
SinPoly(x) ==
    LET x2 == FMul(x, x)
        x3 == FMul(x2, x)
        x5 == FMul(x3, x2)
        x7 == FMul(x5, x2)
        x9 == FMul(x7, x2)
    IN  x - RDiv(x3 - RDiv(x5 - RDiv(x7 - RDiv(x9, 72), 42), 20), 6)

\* f32::sin for -TAU <= x <= 2 * TAU
Sin(x) ==
    LET y == IF x > PI THEN (IF x - TAU > PI THEN x - 2 * TAU ELSE x - TAU)
             ELSE IF x < -PI THEN x + TAU ELSE x
        z == IF y > PI \div 2 THEN PI - y
             ELSE IF y < -(PI \div 2) THEN -PI - y ELSE y
        r == SinPoly(z)
    IN  IF r > One THEN One ELSE IF r < -One THEN -One ELSE r

\* f32::cos
Cos(x) == Sin(x + PI \div 2)

RECURSIVE AcosBisect(_, _, _)
AcosBisect(y, lo, hi) ==
    IF hi - lo <= 1
    THEN (IF Abs(Cos(lo) - y) <= Abs(Cos(hi) - y) THEN lo ELSE hi)
    ELSE LET mid == (lo + hi) \div 2
         IN  IF Cos(mid) > y THEN AcosBisect(y, mid, hi) ELSE AcosBisect(y, lo, mid)

\* f32::acos: the angle in [0, PI] whose cosine is y; NaN outside [-1, 1]
Acos(y) ==
    IF y > One \/ y < -One THEN NaN
    ELSE IF y = One THEN 0
    ELSE IF y = -One THEN PI
    ELSE AcosBisect(y, 0, PI)

\* f32::atan2(z, x): the angle of the point (x, z) in [-PI, PI]
Atan2(z, x) ==
    IF x = 0 /\ z = 0 THEN 0
    ELSE LET m == ISqrt(x * x + z * z)
             c0 == IF m = 0 THEN (IF x > 0 THEN One ELSE IF x < 0 THEN -One ELSE 0)
                   ELSE FDiv(x, m)
             c == IF c0 > One THEN One ELSE IF c0 < -One THEN -One ELSE c0
             a == Acos(c)
         IN  IF z < 0 THEN -a ELSE a

\* ---------------------------------------------------------------- Vertex
\* new_vertex!, the 11-argument arm; the arguments are f32 values
new_vertex(px, py, pz, nx, ny, nz, tx, ty, tz, u, v) ==
    [position |-> <<px, py, pz>>, normal |-> <<nx, ny, nz>>,
     tangent |-> <<tx, ty, tz>>, tex_coord |-> <<u, v>>]

\* new_vertex!, the 3-argument arm
new_vertex3(px, py, pz) ==
    [position |-> <<px, py, pz>>, normal |-> <<0, 0, 0>>,
     tangent |-> <<0, 0, 0>>, tex_coord |-> <<0, 0>>]

\* a plausible slip: the normal is copied from the first argument
get_middle_first_normal(v0, v1) ==
    [position |-> VecHalf(VecAdd(v0.position, v1.position)),
     normal |-> v0.normal,
     tangent |-> VecHalf(VecAdd(v0.tangent, v1.tangent)),
     tex_coord |-> VecHalf(VecAdd(v0.tex_coord, v1.tex_coord))]

\* a plausible slip: the sums are not halved
get_middle_no_half(v0, v1) ==
    [position |-> VecAdd(v0.position, v1.position),
     normal |-> VecAdd(v0.normal, v1.normal),
     tangent |-> VecAdd(v0.tangent, v1.tangent),
     tex_coord |-> VecAdd(v0.tex_coord, v1.tex_coord)]

\* get_middle!
get_middle(v0, v1) ==
    [position |-> VecHalf(VecAdd(v0.position, v1.position)),
     normal |-> VecHalf(VecAdd(v0.normal, v1.normal)),
     tangent |-> VecHalf(VecAdd(v0.tangent, v1.tangent)),
     tex_coord |-> VecHalf(VecAdd(v0.tex_coord, v1.tex_coord))]

\* std::mem::size_of::<f32>()
SizeOfF32 == 4

\* std::mem::size_of::<[f32; n]>()
SizeOfArray(n) == n * SizeOfF32

\* the fields of the #[repr(C)] struct Vertex in declaration order, with the
\* number of f32 each holds (Vector3<f32>, Vector2<f32>)
VertexFields ==
    << [name |-> "position", len |-> 3], [name |-> "normal", len |-> 3],
       [name |-> "tangent", len |-> 3], [name |-> "tex_coord", len |-> 2] >>

\* the byte offset of field k of Vertex: with #[repr(C)] the fields follow
\* each other in declaration order, and fields of f32 need no padding
RECURSIVE FieldOffset(_)
FieldOffset(k) ==
    IF k = 1 THEN 0 ELSE FieldOffset(k - 1) + SizeOfArray(VertexFields[k - 1].len)

\* std::mem::size_of::<Vertex>()
SizeOfVertex == FieldOffset(Len(VertexFields)) + SizeOfArray(VertexFields[Len(VertexFields)].len)

\* the bytes of a wgpu::VertexFormat of f32 components
FormatSize(format) ==
    IF format = "Float3" THEN SizeOfArray(3)
    ELSE IF format = "Float2" THEN SizeOfArray(2)
    ELSE 0

\* a plausible slip: the offset of the tangent counts 5 floats, not 6
desc_tangent_at_five ==
    [array_stride |-> SizeOfVertex,
     step_mode |-> "Vertex",
     attributes |->
        << [offset |-> 0, shader_location |-> 0, format |-> "Float3"],
           [offset |-> SizeOfArray(3), shader_location |-> 1, format |-> "Float3"],
           [offset |-> SizeOfArray(5), shader_location |-> 2, format |-> "Float3"],
           [offset |-> SizeOfArray(9), shader_location |-> 3, format |-> "Float2"] >>]

\* Vertex::desc()
desc ==
    [array_stride |-> SizeOfVertex,
     step_mode |-> "Vertex",
     attributes |->
        << [offset |-> 0, shader_location |-> 0, format |-> "Float3"],
           [offset |-> SizeOfArray(3), shader_location |-> 1, format |-> "Float3"],
           [offset |-> SizeOfArray(6), shader_location |-> 2, format |-> "Float3"],
           [offset |-> SizeOfArray(9), shader_location |-> 3, format |-> "Float2"] >>]

\* ------------------------------------------------------------ Mesh::brick
\* the 24 vertices of the box, 4 per face
BrickVertices(width, height, depth) ==
    LET w2 == Half(width)
        h2 == Half(height)
        d2 == Half(depth)
        o == One
    IN  << \* front face
           new_vertex(-w2, -h2, -d2, 0, 0, -o, o, 0, 0, 0, o),
           new_vertex(-w2,  h2, -d2, 0, 0, -o, o, 0, 0, 0, 0),
           new_vertex( w2,  h2, -d2, 0, 0, -o, o, 0, 0, o, 0),
           new_vertex( w2, -h2, -d2, 0, 0, -o, o, 0, 0, o, o),
           \* back face
           new_vertex(-w2, -h2,  d2, 0, 0, o, -o, 0, 0, o, o),
           new_vertex( w2, -h2,  d2, 0, 0, o, -o, 0, 0, 0, o),
           new_vertex( w2,  h2,  d2, 0, 0, o, -o, 0, 0, 0, 0),
           new_vertex(-w2,  h2,  d2, 0, 0, o, -o, 0, 0, o, 0),
           \* top face
           new_vertex(-w2,  h2, -d2, 0, o, 0, o, 0, 0, 0, o),
           new_vertex(-w2,  h2,  d2, 0, o, 0, o, 0, 0, 0, 0),
           new_vertex( w2,  h2,  d2, 0, o, 0, o, 0, 0, o, 0),
           new_vertex( w2,  h2, -d2, 0, o, 0, o, 0, 0, o, o),
           \* bottom face
           new_vertex(-w2, -h2, -d2, 0, -o, 0, -o, 0, 0, o, o),
           new_vertex( w2, -h2, -d2, 0, -o, 0, -o, 0, 0, 0, o),
           new_vertex( w2, -h2,  d2, 0, -o, 0, -o, 0, 0, 0, 0),
           new_vertex(-w2, -h2,  d2, 0, -o, 0, -o, 0, 0, o, 0),
           \* left face
           new_vertex(-w2, -h2,  d2, -o, 0, 0, 0, 0, -o, 0, o),
           new_vertex(-w2,  h2,  d2, -o, 0, 0, 0, 0, -o, 0, 0),
           new_vertex(-w2,  h2, -d2, -o, 0, 0, 0, 0, -o, o, 0),
           new_vertex(-w2, -h2, -d2, -o, 0, 0, 0, 0, -o, o, o),
           \* right face
           new_vertex( w2, -h2, -d2, o, 0, 0, 0, 0, o, 0, o),
           new_vertex( w2,  h2, -d2, o, 0, 0, 0, 0, o, 0, 0),
           new_vertex( w2,  h2,  d2, o, 0, 0, 0, 0, o, o, 0),
           new_vertex( w2, -h2,  d2, o, 0, 0, 0, 0, o, o, o) >>

\* a plausible slip: the second triangle of the bottom face wound the other way
BrickIndicesFlipped ==
    << 0, 1, 2,     0, 2, 3,
       4, 5, 6,     4, 6, 7,
       8, 9, 10,    8, 10, 11,
       12, 13, 14,  12, 15, 14,
       16, 17, 18,  16, 18, 19,
       20, 21, 22,  20, 22, 23 >>

\* the 12 triangles of the box, 2 per face
BrickIndices ==
    << 0, 1, 2,     0, 2, 3,
       4, 5, 6,     4, 6, 7,
       8, 9, 10,    8, 10, 11,
       12, 13, 14,  12, 14, 15,
       16, 17, 18,  16, 18, 19,
       20, 21, 22,  20, 22, 23 >>

\* the box dimensions the model calls brick with (f32 values 1.0 and 2.0)
Dims == {One, 2 * One}

\* ----------------------------------------------------------- Mesh::sphere
\* the vertex pushed by the body of the `for j in 0..(slice + 1)` loop
RingVertex(radius, slice, stack, ii, jj) ==
    LET phi_step == FDiv(PI, stack * One)
        theta_step == FDiv(2 * PI, slice * One)
        phi == FMul(ii * One, phi_step)
        theta == FMul(jj * One, theta_step)
        position == << FMul(FMul(radius, Sin(phi)), Cos(theta)),
                       FMul(radius, Cos(phi)),
                       FMul(FMul(radius, Sin(phi)), Sin(theta)) >>
        tangent == << FMul(FMul(-radius, Sin(phi)), Sin(theta)),
                      0,
                      FMul(FMul(radius, Sin(phi)), Cos(theta)) >>
        tex_coord == << FDiv(theta, FMul(PI, 2 * One)), FDiv(phi, PI) >>
    IN  [position |-> position, normal |-> Normalize(position),
         tangent |-> Normalize(tangent), tex_coord |-> tex_coord]

\* a plausible slip: the seam column is not duplicated
RingColumnsNoSeam(slice) == slice

\* the end of the range of `for j in 0..(slice + 1)`
RingColumns(slice) == slice + 1

\* the loops `for i in 1..stack { for j in 0..(slice + 1) { push } }`
RECURSIVE RingLoop(_, _, _, _, _, _)
RingLoop(vs, radius, slice, stack, ii, jj) ==
    IF ii >= stack THEN vs
    ELSE IF jj >= RingColumns(slice) THEN RingLoop(vs, radius, slice, stack, ii + 1, 0)
    ELSE RingLoop(Append(vs, RingVertex(radius, slice, stack, ii, jj)),
                  radius, slice, stack, ii, jj + 1)

\* a plausible slip: both poles are pushed before the rings
SphereVerticesPolesFirst(radius, slice, stack) ==
    LET top == new_vertex(0, radius, 0, 0, One, 0, One, 0, 0, 0, 0)
        bottom == new_vertex(0, -radius, 0, 0, -One, 0, One, 0, 0, 0, One)
    IN  RingLoop(<<top, bottom>>, radius, slice, stack, 1, 0)

\* mesh.vertices of sphere: top, the rings, bottom
SphereVertices(radius, slice, stack) ==
    LET top == new_vertex(0, radius, 0, 0, One, 0, One, 0, 0, 0, 0)
        bottom == new_vertex(0, -radius, 0, 0, -One, 0, One, 0, 0, 0, One)
    IN  Append(RingLoop(<<top>>, radius, slice, stack, 1, 0), bottom)

\* the loop over the top stack
RECURSIVE TopLoop(_, _, _)
TopLoop(is, slice, ii) ==
    IF ii >= slice THEN is
    ELSE TopLoop(is \o <<0, ii + 2, ii + 1>>, slice, ii + 1)

\* a plausible slip: the last stack is taken for an inner stack
InnerStackCountAll(stack) == stack - 1

\* the end of the range of `for i in 0..(stack - 2)`
InnerStackCount(stack) == stack - 2

\* the loops over the inner stacks
RECURSIVE InnerLoop(_, _, _, _, _)
InnerLoop(is, slice, stack, ii, jj) ==
    LET ring_vertices == slice + 1
    IN  IF ii >= InnerStackCount(stack) THEN is
        ELSE IF jj >= slice THEN InnerLoop(is, slice, stack, ii + 1, 0)
        ELSE InnerLoop(is \o << 1 + ii * ring_vertices + jj,
                                1 + ii * ring_vertices + jj + 1,
                                1 + (ii + 1) * ring_vertices + jj,
                                1 + (ii + 1) * ring_vertices + jj,
                                1 + ii * ring_vertices + jj + 1,
                                1 + (ii + 1) * ring_vertices + jj + 1 >>,
                       slice, stack, ii, jj + 1)

\* the loop over the bottom stack
RECURSIVE BottomLoop(_, _, _, _, _)
BottomLoop(is, slice, south_pole_index, base_index, ii) ==
    IF ii >= slice THEN is
    ELSE BottomLoop(is \o <<south_pole_index, base_index + ii, base_index + ii + 1>>,
                    slice, south_pole_index, base_index, ii + 1)

\* a plausible slip: the south pole is taken to be the vertex before the last
SouthPoleIndexBeforeLast(vertices_len) == vertices_len - 2

\* `let south_pole_index = mesh.vertices.len() as u32 - 1`
SouthPoleIndex(vertices_len) == vertices_len - 1

\* a plausible slip: the base of the last ring is off by one
SphereIndicesBadBase(slice, stack, vertices_len) ==
    LET south_pole_index == SouthPoleIndex(vertices_len)
        base_index == south_pole_index - slice
    IN  BottomLoop(InnerLoop(TopLoop(<<>>, slice, 0), slice, stack, 0, 0),
                   slice, south_pole_index, base_index, 0)

\* mesh.indices of sphere, given the vertex count
SphereIndices(slice, stack, vertices_len) ==
    LET south_pole_index == SouthPoleIndex(vertices_len)
        base_index == south_pole_index - slice - 1
    IN  BottomLoop(InnerLoop(TopLoop(<<>>, slice, 0), slice, stack, 0, 0),
                   slice, south_pole_index, base_index, 0)

\* the radii the model calls sphere and geo_sphere with (1.0 and 2.0)
Radii == {One, 2 * One}

\* ------------------------------------------------------- Mesh::geo_sphere
\* X = 0.525731 and Z = 0.850651, taken to the nearest multiple of 1/512 so
\* that the midpoints of the subdivision passes stay on the grid
X == 2152
Z == 3488

\* the 12 vertices of the icosahedron
GeoVertices ==
    << new_vertex3(-X, 0, Z),  new_vertex3(X, 0, Z),
       new_vertex3(-X, 0, -Z), new_vertex3(X, 0, -Z),
       new_vertex3(0, Z, X),   new_vertex3(0, Z, -X),
       new_vertex3(0, -Z, X),  new_vertex3(0, -Z, -X),
       new_vertex3(Z, X, 0),   new_vertex3(-Z, X, 0),
       new_vertex3(Z, -X, 0),  new_vertex3(-Z, -X, 0) >>

\* a plausible slip: the last face of the table is left out
GeoIndicesShort ==
    << 1, 4, 0,    4, 9, 0,    4, 5, 9,    8, 5, 4,    1, 8, 4,
       1, 10, 8,   10, 3, 8,   8, 3, 5,    3, 2, 5,    3, 7, 2,
       3, 10, 7,   10, 6, 7,   6, 11, 7,   6, 0, 11,   6, 1, 0,
       10, 1, 6,   11, 0, 9,   2, 11, 9,   5, 2, 9 >>

\* the 20 faces of the icosahedron
GeoIndices ==
    << 1, 4, 0,    4, 9, 0,    4, 5, 9,    8, 5, 4,    1, 8, 4,
       1, 10, 8,   10, 3, 8,   8, 3, 5,    3, 2, 5,    3, 7, 2,
       3, 10, 7,   10, 6, 7,   6, 11, 7,   6, 0, 11,   6, 1, 0,
       10, 1, 6,   11, 0, 9,   2, 11, 9,   5, 2, 9,    11, 2, 7 >>

\* a plausible slip: the normal is stored as the position, not scaled by the radius
ReprojectNoRadius(vertex, r) ==
    LET normal == Normalize(vertex.position)
        position == normal
        theta0 == Atan2(position[3], position[1])
        theta == IF theta0 < 0 THEN theta0 + TAU ELSE theta0
        phi == Acos(FDiv(position[2], r))
    IN  [position |-> position,
         normal |-> normal,
         tangent |-> << FMul(FMul(-r, Sin(phi)), Sin(theta)),
                        0,
                        FMul(FMul(r, Sin(phi)), Cos(theta)) >>,
         tex_coord |-> << FDiv(theta, TAU), FDiv(phi, PI) >>]

\* the body of `for vertex in &mut mesh.vertices`
Reproject(vertex, r) ==
    LET normal == Normalize(vertex.position)
        position == [k \in 1..3 |-> FMul(normal[k], r)]
        theta0 == Atan2(position[3], position[1])
        theta == IF theta0 < 0 THEN theta0 + TAU ELSE theta0
        phi == Acos(FDiv(position[2], r))
    IN  [position |-> position,
         normal |-> normal,
         tangent |-> << FMul(FMul(-r, Sin(phi)), Sin(theta)),
                        0,
                        FMul(FMul(r, Sin(phi)), Cos(theta)) >>,
         tex_coord |-> << FDiv(theta, TAU), FDiv(phi, PI) >>]

\* ------------------------------------------------------------------ Timer
\* the outcome of a panicking call (every Duration is >= 0)
Panic == -1

\* Instant::duration_since(x, y): x - y; the toolchain of the repository
\* panics when y is later than x
duration_since(x, y) == IF x >= y THEN x - y ELSE Panic

\* Duration - Duration: panics on underflow
DurationSub(d, e) == IF d = Panic \/ d < e THEN Panic ELSE d - e

\* Timer::new(), its three Instant::now() calls returning t0 <= t1 <= t2
new_timer(t0, t1, t2) ==
    [base_time |-> t0, paused_duration |-> 0, stop_time |-> t1,
     delta_time |-> 0, curr_time |-> t2, stopped |-> FALSE]

\* Timer::total_time(), in clock units (as_secs_f32 only converts)
total_time(t) ==
    IF t.stopped
    THEN DurationSub(duration_since(t.stop_time, t.base_time), t.paused_duration)
    ELSE DurationSub(duration_since(t.curr_time, t.base_time), t.paused_duration)

\* Timer::reset(), with curr_time the value of Instant::now()
reset(t, curr_time) ==
    [t EXCEPT !.base_time = curr_time, !.curr_time = curr_time, !.stopped = FALSE]

\* a plausible slip: the pause is measured from curr_time, not from stop_time
start_from_curr(t, curr_time) ==
    IF t.stopped
    THEN [t EXCEPT !.paused_duration = @ + duration_since(curr_time, t.curr_time),
                   !.curr_time = curr_time,
                   !.stopped = FALSE]
    ELSE t

\* Timer::start()
start(t, curr_time) ==
    IF t.stopped
    THEN [t EXCEPT !.paused_duration = @ + duration_since(curr_time, t.stop_time),
                   !.curr_time = curr_time,
                   !.stopped = FALSE]
    ELSE t

\* Timer::stop(), with instant the value of Instant::now()
stop(t, instant) ==
    IF ~t.stopped
    THEN [t EXCEPT !.stop_time = instant, !.stopped = TRUE]
    ELSE t

\* Timer::tick()
tick(t, curr_time) ==
    IF t.stopped
    THEN [t EXCEPT !.delta_time = 0]
    ELSE [t EXCEPT !.delta_time = duration_since(curr_time, t.curr_time),
                   !.curr_time = curr_time]

\* ------------------------------------------------------------- Controller
\* Controller::new(speed); speed is never written again and is left out
new_controller ==
    [up_pressed |-> FALSE, down_pressed |-> FALSE, left_pressed |-> FALSE,
     right_pressed |-> FALSE, current_cursor |-> <<0, 0>>, last_cursor |-> <<0, 0>>,
     dragged |-> FALSE]

\* Controller::process_events(event), the new state of the controller
process_events(c, event) ==
    IF event.kind = "KeyboardInput"
    THEN LET press_state == (event.state = "Pressed")
         IN  IF event.keycode \in {"W", "Up"} THEN [c EXCEPT !.up_pressed = press_state]
             ELSE IF event.keycode \in {"S", "Down"} THEN [c EXCEPT !.down_pressed = press_state]
             ELSE IF event.keycode \in {"A", "Left"} THEN [c EXCEPT !.left_pressed = press_state]
             ELSE IF event.keycode \in {"D", "Right"} THEN [c EXCEPT !.right_pressed = press_state]
             ELSE c
    ELSE IF event.kind = "MouseInput"
    THEN LET press_state == (event.state = "Pressed")
         IN  IF event.button = "Left" THEN [c EXCEPT !.dragged = press_state] ELSE c
    ELSE IF event.kind = "CursorMoved"
    THEN [c EXCEPT !.current_cursor = event.position]
    ELSE c

\* the cursor delta (theta, phi) Camera::update reads from the controller
CursorDelta(c) ==
    << c.current_cursor[1] - c.last_cursor[1], c.current_cursor[2] - c.last_cursor[2] >>

\* a plausible slip: last_cursor is synchronised before the objects are updated
ObjectsSeeAfterSync(c, n) == [o \in 1..n |-> [c EXCEPT !.last_cursor = c.current_cursor]]

\* the loop of update_all: the `&Controller` each of the n objects is passed
ObjectsSee(c, n) == [o \in 1..n |-> c]

\* the state Controller::update_all leaves the controller in
update_all(c) == [c EXCEPT !.last_cursor = c.current_cursor]

\* ------------------------------------------------------ sampled arguments
\* the vertices get_middle! is applied to on its own
SampleVertices ==
    { new_vertex(p, q, 0, n, One, 0, t, 0, -One, u, 0) :
        p \in {-One, One}, q \in {0, 2 * One}, n \in {0, One},
        t \in {0, One}, u \in {0, One} }

\* the vertices of the meshes subdivide is applied to on its own: the
\* corners of a triangle, with three different normals and tangents
PoolVertices ==
    << new_vertex(0, 0, 0,   0, 0, One,  One, 0, 0,  0, 0),
       new_vertex(8, 0, 0,   0, One, 0,  0, 0, One,  One, 0),
       new_vertex(0, 8, 4,   One, 0, 0,  0, One, 0,  0, One) >>

\* the index sequences of t triangles over v vertices
IndexSeqs(v, t) == [1..(3 * t) -> 0..(v - 1)]

\* ----------------------------------------------------------------- state
VARIABLES
    pc,            \* position of the generator call
    gen,           \* the generator called: "brick", "sphere", "geo_sphere", "mesh", "none"
    vertices,      \* Mesh::vertices
    indices,       \* Mesh::indices
    subdivision,   \* the subdivision argument of brick / geo_sphere
    radius,        \* the radius argument of sphere / geo_sphere
    passes,        \* subdivide calls completed (the `for _ in 0..subdivision` counter)
    num_triangle,  \* subdivide: the captured loop bound
    i,             \* subdivide: the loop variable
    cursor,        \* geo_sphere: position of the `for vertex in &mut mesh.vertices` iterator
    vertices0,     \* history: vertices when the current (or last) pass started
    indices0,      \* history: indices when the current (or last) pass started
    parents,       \* history: the triangle slots read as parents in the current (or last) pass
    rewritten,     \* history: the vertex slots rewritten by the post-process
    width, height, depth,  \* the arguments of brick
    slice, stack,  \* the arguments of sphere
    a, b,          \* get_middle! on its own: the two arguments
    m_ab, m_ba,    \* get_middle! on its own: get_middle!(a, b) and get_middle!(b, a)
    timer,         \* the Timer
    now,           \* the monotonic clock Instant::now() reads
    ran,           \* history: clock units passed while the timer ran since the last reset
    last_op,       \* history: the last Timer operation called
    total_at_stop, \* history: total_time() right after the last stop() that stopped the timer
    controller,    \* the Controller
    seen,          \* history: the controller each object was passed by the update_all
                   \* just done (empty once another event has come)
    pending,       \* history: the displacement of the CursorMoved events since the last update_all
    consumed,      \* history: the sum of the cursor deltas the update_all calls have shown
    ctl_op         \* history: the last Controller operation

meshVars == <<pc, gen, vertices, indices, subdivision, radius, passes, num_triangle, i,
              cursor, vertices0, indices0, parents, rewritten>>
midVars == <<a, b, m_ab, m_ba>>
argVars == <<width, height, depth, slice, stack>>
timerVars == <<timer, now, ran, last_op, total_at_stop>>
ctlVars == <<controller, seen, pending, consumed, ctl_op>>
vars == <<meshVars, midVars, argVars, timerVars, ctlVars>>

\* what the steps of the mesh operations after the construction leave alone,
\* and what get_middle! on its own leaves alone
notMesh == <<midVars, argVars, timerVars, ctlVars>>
notMid == <<meshVars, argVars, timerVars, ctlVars>>

\* no generator has been called with arguments yet
ArgsIdle ==
    /\ width = 0
    /\ height = 0
    /\ depth = 0
    /\ slice = 0
    /\ stack = 0

\* a Vertex that holds nothing yet
NoVertex == new_vertex3(0, 0, 0)

MeshInit ==
    /\ pc = "start"
    /\ gen = "none"
    /\ vertices = <<>>
    /\ indices = <<>>
    /\ subdivision = 0
    /\ radius = 0
    /\ passes = 0
    /\ num_triangle = 0
    /\ i = 0
    /\ cursor = 0
    /\ vertices0 = <<>>
    /\ indices0 = <<>>
    /\ parents = <<>>
    /\ rewritten = <<>>

MidIdle ==
    /\ a = NoVertex
    /\ b = NoVertex
    /\ m_ab = NoVertex
    /\ m_ba = NoVertex

\* no Timer has been made yet
TimerIdle ==
    /\ timer = new_timer(0, 0, 0)
    /\ now = 0
    /\ ran = 0
    /\ last_op = "none"
    /\ total_at_stop = 0

\* no Controller has been used yet
ControllerIdle ==
    /\ controller = new_controller
    /\ seen = <<>>
    /\ pending = <<0, 0>>
    /\ consumed = <<0, 0>>
    /\ ctl_op = "new"

Init == MeshInit /\ MidIdle /\ ArgsIdle /\ TimerIdle /\ ControllerIdle

\* Mesh::brick up to the subdivision loop
Brick ==
    /\ pc = "start"
    /\ \E w \in Dims, h \in Dims, d \in Dims, n \in 0..MaxSubdivision :
          /\ vertices' = BrickVertices(w, h, d)
          /\ indices' = BrickIndices
          /\ subdivision' = n
          /\ width' = w
          /\ height' = h
          /\ depth' = d
    /\ gen' = "brick"
    /\ pc' = "loop"
    /\ UNCHANGED <<radius, passes, num_triangle, i, cursor, vertices0, indices0,
                   parents, rewritten>>
    /\ UNCHANGED <<midVars, slice, stack, timerVars, ctlVars>>

\* Mesh::sphere, called with slice >= 3 and stack >= 2
Sphere ==
    /\ pc = "start"
    /\ \E r \in Radii, sl \in 3..MaxSlice, st \in 2..MaxStack :
          LET vs == SphereVertices(r, sl, st)
          IN  /\ vertices' = vs
              /\ indices' = SphereIndices(sl, st, Len(vs))
              /\ radius' = r
              /\ slice' = sl
              /\ stack' = st
    /\ gen' = "sphere"
    /\ pc' = "done"
    /\ UNCHANGED <<subdivision, passes, num_triangle, i, cursor, vertices0, indices0,
                   parents, rewritten>>
    /\ UNCHANGED <<midVars, width, height, depth, timerVars, ctlVars>>

\* Mesh::geo_sphere up to the subdivision loop
GeoSphere ==
    /\ pc = "start"
    /\ \E r \in Radii, n \in 0..MaxSubdivision :
          /\ radius' = r
          /\ subdivision' = n
    /\ vertices' = GeoVertices
    /\ indices' = GeoIndices
    /\ gen' = "geo_sphere"
    /\ pc' = "loop"
    /\ UNCHANGED <<passes, num_triangle, i, cursor, vertices0, indices0,
                   parents, rewritten>>
    /\ UNCHANGED notMesh

\* ------------------------------------------------------- Mesh::subdivide
\* a plausible slip: `0..=subdivision`
LoopContinuesInclusive(done, n) == done <= n

\* `for _ in 0..subdivision`: another iteration follows `done` iterations
LoopContinues(done, n) == done < n

\* a plausible slip: the index count taken for the triangle count
NumTriangleNoDiv(len) == len

\* num_triangle
NumTriangle(len) == len \div 3

\* a plausible slip: the first midpoint lands on the last vertex
Push3Overwrite(vs, m0, m1, m2) ==
    IF Len(vs) = 0 THEN <<m0, m1, m2>>
    ELSE [vs EXCEPT ![Len(vs)] = m0] \o <<m0, m1, m2>>

\* a plausible slip: a midpoint equal to a vertex already stored is not pushed
PushWeld(vs, m) == IF \E k \in 1..Len(vs) : vs[k] = m THEN vs ELSE Append(vs, m)
Push3Weld(vs, m0, m1, m2) == PushWeld(PushWeld(PushWeld(vs, m0), m1), m2)

\* the three pushes onto self.vertices
Push3(vs, m0, m1, m2) == vs \o <<m0, m1, m2>>

\* a plausible slip: the middle triangle is appended first
AppendedReordered(v0_index, v1_index, v2_index, m0_index, m1_index, m2_index) ==
    << m0_index, m1_index, m2_index,
       m0_index, v1_index, m1_index,
       m2_index, m1_index, v2_index >>

\* a plausible slip: the middle triangle is not appended
AppendedShort(v0_index, v1_index, v2_index, m0_index, m1_index, m2_index) ==
    << m0_index, v1_index, m1_index,
       m2_index, m1_index, v2_index >>

\* the call of subdivide from the `for _ in 0..subdivision` loop, and the
\* capture of the loop bound
SubdivideBegin ==
    /\ pc = "loop"
    /\ LoopContinues(passes, subdivision)
    /\ num_triangle' = NumTriangle(Len(indices))
    /\ i' = 0
    /\ vertices0' = vertices
    /\ indices0' = indices
    /\ parents' = <<>>
    /\ pc' = "subdivide"
    /\ UNCHANGED <<gen, vertices, indices, subdivision, radius, passes, cursor, rewritten>>
    /\ UNCHANGED notMesh

\* a plausible slip: m2_index computed one slot too far
M2IndexOff(len) == len + 3

\* m2_index
M2Index(len) == len + 2

\* a plausible slip: the second midpoint is midpoint(v0, v1) again
Midpoint1Wrong(v0, v1, v2) == get_middle(v0, v1)

\* m1
Midpoint1(v0, v1, v2) == get_middle(v1, v2)

\* a plausible slip: the last child names m1 twice and loses the corner v2
AppendedCornerLost(v0_index, v1_index, v2_index, m0_index, m1_index, m2_index) ==
    << m0_index, v1_index, m1_index,
       m0_index, m1_index, m2_index,
       m2_index, m1_index, m1_index >>

\* a plausible slip: the second appended triangle is wound the other way
AppendedWrongWinding(v0_index, v1_index, v2_index, m0_index, m1_index, m2_index) ==
    << m0_index, v1_index, m1_index,
       m0_index, m2_index, m1_index,
       m2_index, m1_index, v2_index >>

\* the slice given to extend_from_slice
Appended(v0_index, v1_index, v2_index, m0_index, m1_index, m2_index) ==
    << m0_index, v1_index, m1_index,
       m0_index, m1_index, m2_index,
       m2_index, m1_index, v2_index >>

\* one iteration of the `for i in 0..num_triangle` loop
SubdivideStep ==
    /\ pc = "subdivide"
    /\ i < num_triangle
    /\ LET v0_index == indices[i * 3 + 1]
           v1_index == indices[i * 3 + 2]
           v2_index == indices[i * 3 + 3]
           m0_index == Len(vertices)
           m1_index == Len(vertices) + 1
           m2_index == M2Index(Len(vertices))
       IN  IF v0_index < Len(vertices) /\ v1_index < Len(vertices) /\ v2_index < Len(vertices)
           THEN LET v0 == vertices[v0_index + 1]
                    v1 == vertices[v1_index + 1]
                    v2 == vertices[v2_index + 1]
                    m0 == get_middle(v0, v1)
                    m1 == Midpoint1(v0, v1, v2)
                    m2 == get_middle(v0, v2)
                IN  /\ vertices' = Push3(vertices, m0, m1, m2)
                    /\ indices' = [indices EXCEPT ![i * 3 + 2] = m0_index,
                                                  ![i * 3 + 3] = m2_index]
                                  \o Appended(v0_index, v1_index, v2_index,
                                              m0_index, m1_index, m2_index)
                    /\ parents' = Append(parents, i)
                    /\ i' = i + 1
                    /\ pc' = pc
           ELSE \* Option::unwrap on None
                /\ pc' = "panic"
                /\ UNCHANGED <<vertices, indices, parents, i>>
    /\ UNCHANGED <<gen, subdivision, radius, passes, num_triangle, cursor,
                   vertices0, indices0, rewritten>>
    /\ UNCHANGED notMesh

\* the loop of subdivide is over; back in the caller's loop
SubdivideEnd ==
    /\ pc = "subdivide"
    /\ i = num_triangle
    /\ passes' = passes + 1
    /\ pc' = "loop"
    /\ UNCHANGED <<gen, vertices, indices, subdivision, radius, num_triangle, i, cursor,
                   vertices0, indices0, parents, rewritten>>
    /\ UNCHANGED notMesh

\* brick (and subdivide applied on its own) returns the mesh
Return ==
    /\ pc = "loop"
    /\ gen \in {"brick", "mesh"}
    /\ ~LoopContinues(passes, subdivision)
    /\ pc' = "done"
    /\ UNCHANGED <<gen, vertices, indices, subdivision, radius, passes, num_triangle, i,
                   cursor, vertices0, indices0, parents, rewritten>>
    /\ UNCHANGED notMesh

\* geo_sphere: the subdivision loop is over, the post-process loop starts
PostProcessBegin ==
    /\ pc = "loop"
    /\ gen = "geo_sphere"
    /\ ~LoopContinues(passes, subdivision)
    /\ cursor' = 0
    /\ pc' = "post"
    /\ UNCHANGED <<gen, vertices, indices, subdivision, radius, passes, num_triangle, i,
                   vertices0, indices0, parents, rewritten>>
    /\ UNCHANGED notMesh

\* a plausible slip: the iterator yields the first vertex every time
IterSlotFirst(pos) == 0

\* the slot the iterator of `for vertex in &mut mesh.vertices` yields at position pos
IterSlot(pos) == pos

\* a plausible slip: the re-projected vertex is pushed, not written back
RewriteVertexPush(vs, k, r) == Append(vs, Reproject(vs[k + 1], r))

\* the writes through `vertex`, the &mut reference to slot k
RewriteVertex(vs, k, r) == [vs EXCEPT ![k + 1] = Reproject(@, r)]

\* geo_sphere: one iteration of `for vertex in &mut mesh.vertices`
PostProcessStep ==
    /\ pc = "post"
    /\ cursor < Len(vertices)
    /\ vertices' = RewriteVertex(vertices, IterSlot(cursor), radius)
    /\ rewritten' = Append(rewritten, IterSlot(cursor))
    /\ cursor' = cursor + 1
    /\ UNCHANGED <<pc, gen, indices, subdivision, radius, passes, num_triangle, i,
                   vertices0, indices0, parents>>
    /\ UNCHANGED notMesh

\* geo_sphere returns the mesh
PostProcessEnd ==
    /\ pc = "post"
    /\ cursor = Len(vertices)
    /\ pc' = "done"
    /\ UNCHANGED <<gen, vertices, indices, subdivision, radius, passes, num_triangle, i,
                   cursor, vertices0, indices0, parents, rewritten>>
    /\ UNCHANGED notMesh

Next ==
    \/ Brick
    \/ Sphere
    \/ GeoSphere
    \/ SubdivideBegin
    \/ SubdivideStep
    \/ SubdivideEnd
    \/ Return
    \/ PostProcessBegin
    \/ PostProcessStep
    \/ PostProcessEnd

\* the generators, as the program calls them
Spec == Init /\ [][Next]_vars

\* ------------------------------------------------ subdivide on its own
\* one subdivide call on any mesh that satisfies the Mesh invariant
SubInit ==
    /\ pc = "loop"
    /\ gen = "mesh"
    /\ \E v \in 0..Len(PoolVertices), t \in 0..MaxTriangle :
          /\ (v = 0 => t = 0)
          /\ vertices = SubSeq(PoolVertices, 1, v)
          /\ indices \in IndexSeqs(v, t)
    /\ subdivision = 1
    /\ radius = 0
    /\ passes = 0
    /\ num_triangle = 0
    /\ i = 0
    /\ cursor = 0
    /\ vertices0 = <<>>
    /\ indices0 = <<>>
    /\ parents = <<>>
    /\ rewritten = <<>>
    /\ MidIdle
    /\ ArgsIdle
    /\ TimerIdle
    /\ ControllerIdle

SubNext ==
    \/ SubdivideBegin
    \/ SubdivideStep
    \/ SubdivideEnd
    \/ Return

SubSpec == SubInit /\ [][SubNext]_vars

\* ------------------------------------- the generators with any arguments
\* the bounds of the arguments of the calls below
MaxCallSlice == 4
MaxCallStack == 3
MaxCallSubdivision == 1

\* the radii and box dimensions of the calls below (f32 -1.0, 0.0 and 1.0)
AnyLengths == {-One, 0, One}

\* brick(width, height, depth, subdivision) with any f32 dimensions: the
\* function reads no dimension before it builds the vertex table
BrickCall ==
    /\ pc = "start"
    /\ \E w \in AnyLengths, h \in AnyLengths, d \in AnyLengths,
          n \in 0..MaxCallSubdivision :
          /\ vertices' = BrickVertices(w, h, d)
          /\ indices' = BrickIndices
          /\ subdivision' = n
          /\ width' = w
          /\ height' = h
          /\ depth' = d
    /\ gen' = "brick"
    /\ pc' = "loop"
    /\ UNCHANGED <<radius, passes, num_triangle, i, cursor, vertices0, indices0,
                   parents, rewritten>>
    /\ UNCHANGED <<midVars, slice, stack, timerVars, ctlVars>>

\* sphere(radius, slice, stack) with any radius, slice >= 1 and any stack.
\* With stack >= 2 no u32 operation overflows and the mesh is returned.
\* With stack < 2 the outcome depends on the build.  With overflow checks
\* `stack - 1` (stack = 0) panics before any push, and `stack - 2`
\* (stack = 1) panics after the poles and the top cap were pushed.  Without
\* them the subtraction wraps: `0..(stack - 2)` is a range of more than
\* 2^32 - 3 rounds of 6 * slice pushes, taken here to end in the abort of
\* memory exhaustion, and with stack = 0 and slice >= 3 the wrapped
\* `vertex_count` of with_capacity may abort before any push.
SphereCall ==
    /\ pc = "start"
    /\ \E r \in AnyLengths, sl \in 1..MaxCallSlice, st \in 0..MaxCallStack,
          overflow_checks \in BOOLEAN, capacity_fails \in BOOLEAN :
          /\ radius' = r
          /\ slice' = sl
          /\ stack' = st
          /\ IF st >= 2
             THEN LET vs == SphereVertices(r, sl, st)
                  IN  /\ vertices' = vs
                      /\ indices' = SphereIndices(sl, st, Len(vs))
                      /\ pc' = "done"
             ELSE IF (overflow_checks /\ st = 0)
                     \/ (~overflow_checks /\ st = 0 /\ sl >= 3 /\ capacity_fails)
             THEN /\ vertices' = <<>>
                  /\ indices' = <<>>
                  /\ pc' = IF overflow_checks THEN "panic" ELSE "abort"
             ELSE /\ vertices' = SphereVertices(r, sl, st)
                  /\ indices' = TopLoop(<<>>, sl, 0)
                  /\ pc' = IF overflow_checks THEN "panic" ELSE "abort"
    /\ gen' = "sphere"
    /\ UNCHANGED <<subdivision, passes, num_triangle, i, cursor, vertices0, indices0,
                   parents, rewritten>>
    /\ UNCHANGED <<midVars, width, height, depth, timerVars, ctlVars>>

CallNext ==
    \/ BrickCall
    \/ SphereCall
    \/ SubdivideBegin
    \/ SubdivideStep
    \/ SubdivideEnd
    \/ Return

CallSpec == Init /\ [][CallNext]_vars

\* ------------------------------------------------------ the Timer alone
\* the last instant of the clock the model follows
MaxNow == 4

\* Timer::new(): the clock may advance between its three Instant::now()
TimerInit ==
    /\ MeshInit
    /\ MidIdle
    /\ ArgsIdle
    /\ ControllerIdle
    /\ \E t1 \in 0..1 : \E t2 \in t1..1 :
          /\ timer = new_timer(0, t1, t2)
          /\ now = t2
          /\ ran = t2
    /\ last_op = "new"
    /\ total_at_stop = 0

\* time passes between two calls
Advance ==
    /\ now < MaxNow
    /\ now' = now + 1
    /\ ran' = IF timer.stopped THEN ran ELSE ran + 1
    /\ last_op' = "advance"
    /\ UNCHANGED <<timer, total_at_stop>>
    /\ UNCHANGED <<meshVars, midVars, argVars, ctlVars>>

TimerReset ==
    /\ timer' = reset(timer, now)
    /\ ran' = 0
    /\ last_op' = "reset"
    /\ UNCHANGED <<now, total_at_stop>>
    /\ UNCHANGED <<meshVars, midVars, argVars, ctlVars>>

TimerStart ==
    /\ timer' = start(timer, now)
    /\ last_op' = "start"
    /\ UNCHANGED <<now, ran, total_at_stop>>
    /\ UNCHANGED <<meshVars, midVars, argVars, ctlVars>>

TimerStop ==
    /\ timer' = stop(timer, now)
    /\ total_at_stop' = IF timer.stopped THEN total_at_stop ELSE total_time(timer')
    /\ last_op' = "stop"
    /\ UNCHANGED <<now, ran>>
    /\ UNCHANGED <<meshVars, midVars, argVars, ctlVars>>

TimerTick ==
    /\ timer' = tick(timer, now)
    /\ last_op' = "tick"
    /\ UNCHANGED <<now, ran, total_at_stop>>
    /\ UNCHANGED <<meshVars, midVars, argVars, ctlVars>>

TimerNext ==
    \/ Advance
    \/ TimerReset
    \/ TimerStart
    \/ TimerStop
    \/ TimerTick

TimerSpec == TimerInit /\ [][TimerNext]_vars

\* ------------------------------------------------- the Controller alone
\* the cursor positions are 0..MaxCursor in each coordinate; update_all is
\* called with 1..MaxObjects objects
MaxCursor == 1
MaxObjects == 2

\* the window events delivered to process_events
Events ==
    [kind : {"KeyboardInput"}, state : {"Pressed", "Released"},
     keycode : {"W", "Up", "S", "Down", "A", "Left", "D", "Right", "Space"}]
    \cup [kind : {"MouseInput"}, state : {"Pressed", "Released"}, button : {"Left", "Right"}]
    \cup [kind : {"CursorMoved"}, position : (0..MaxCursor) \X (0..MaxCursor)]
    \cup [kind : {"Resized"}]

ProcessEvents ==
    /\ \E event \in Events :
          /\ controller' = process_events(controller, event)
          /\ pending' = IF event.kind = "CursorMoved"
                        THEN << pending[1] + event.position[1] - controller.current_cursor[1],
                                pending[2] + event.position[2] - controller.current_cursor[2] >>
                        ELSE pending
          /\ ctl_op' = event.kind
    /\ seen' = <<>>
    /\ UNCHANGED consumed
    /\ UNCHANGED <<meshVars, midVars, argVars, timerVars>>

UpdateAll ==
    /\ \E n \in 1..MaxObjects : seen' = ObjectsSee(controller, n)
    /\ controller' = update_all(controller)
    /\ consumed' = << consumed[1] + CursorDelta(controller)[1],
                      consumed[2] + CursorDelta(controller)[2] >>
    /\ pending' = <<0, 0>>
    /\ ctl_op' = "update_all"
    /\ UNCHANGED <<meshVars, midVars, argVars, timerVars>>

ControllerNext ==
    \/ ProcessEvents
    \/ UpdateAll

ControllerSpec == Init /\ [][ControllerNext]_vars

\* ----------------------------------------------- get_middle! on its own
MidInit ==
    /\ MeshInit
    /\ a \in SampleVertices
    /\ b \in SampleVertices
    /\ m_ab = NoVertex
    /\ m_ba = NoVertex
    /\ ArgsIdle
    /\ TimerIdle
    /\ ControllerIdle

\* get_middle!(a, b) and get_middle!(b, a) are evaluated
MidApply ==
    /\ pc = "start"
    /\ pc' = "mid_done"
    /\ m_ab' = get_middle(a, b)
    /\ m_ba' = get_middle(b, a)
    /\ UNCHANGED <<a, b>>
    /\ UNCHANGED <<gen, vertices, indices, subdivision, radius, passes, num_triangle, i,
                   cursor, vertices0, indices0, parents, rewritten>>
    /\ UNCHANGED <<argVars, timerVars, ctlVars>>

MidNext == MidApply

MidSpec == MidInit /\ [][MidNext]_vars

\* ================================================================ claims
\* the pre-pass vertex and triangle counts of the current (or last) pass
V0 == Len(vertices0)
T0 == Len(indices0) \div 3

\* the triangle in slot t (0-based) of an index sequence
Tri(is, t) == <<is[3 * t + 1], is[3 * t + 2], is[3 * t + 3]>>

\* the indices of the three vertices appended for parent k
M0(k) == V0 + 3 * k
M1(k) == V0 + 3 * k + 1
M2(k) == V0 + 3 * k + 2

\* a pass is running or has completed, and the post-process has not started
InOrAfterPass == pc \in {"subdivide", "loop"} \/ (pc = "done" /\ gen \in {"brick", "mesh"})

\* a pass has completed and no later pass has started
PassComplete == passes > 0 /\ pc \in {"loop", "post", "done"}

\* C1: in every reachable state of a Mesh (after a generator built it, after
\* every per-triangle step of a subdivide pass, during and after the
\* geo_sphere post-process) indices.len() is a multiple of 3 and every index
\* is below vertices.len(); no vertex lookup of subdivide fails.
C1_MeshInvariant ==
    /\ Len(indices) % 3 = 0
    /\ \A k \in 1..Len(indices) : indices[k] >= 0 /\ indices[k] < Len(vertices)
    /\ pc # "panic"

C1_Witness ==
    /\ gen = "geo_sphere" /\ pc = "subdivide" /\ passes = 1
    /\ i > 0 /\ i < num_triangle

\* C2: a completed subdivide pass on a mesh with T triangles and V vertices
\* leaves exactly 4T triangles (12T indices) and V + 3T vertices, T = 0 included.
C2_PassCounts ==
    PassComplete =>
        /\ Len(indices) = 12 * T0
        /\ Len(indices) \div 3 = 4 * T0
        /\ Len(vertices) = V0 + 3 * T0

C2_Witness ==
    /\ gen = "mesh" /\ pc = "done" /\ passes = 1
    /\ T0 = 2 /\ V0 = 3 /\ Len(vertices) = 9 /\ Len(indices) = 24

\* C3: for every triangle k of the pre-pass mesh, with indices (v0, v1, v2),
\* once its step has run slot k holds (v0, m0, m2) and slots T + 3k .. T + 3k + 2
\* hold (m0, v1, m1), (m0, m1, m2), (m2, m1, v2), where m0 = V + 3k,
\* m1 = V + 3k + 1, m2 = V + 3k + 2.
C3_ChildLayout ==
    \A k \in 0..(Len(parents) - 1) :
        LET v0 == indices0[3 * k + 1]
            v1 == indices0[3 * k + 2]
            v2 == indices0[3 * k + 3]
        IN  /\ Tri(indices, k) = <<v0, M0(k), M2(k)>>
            /\ Tri(indices, T0 + 3 * k) = <<M0(k), v1, M1(k)>>
            /\ Tri(indices, T0 + 3 * k + 1) = <<M0(k), M1(k), M2(k)>>
            /\ Tri(indices, T0 + 3 * k + 2) = <<M2(k), M1(k), v2>>

C3_Witness ==
    /\ gen = "brick" /\ pc = "done" /\ passes = 2
    /\ Len(parents) = 48 /\ Tri(indices, 47) = <<Tri(indices0, 47)[1], M0(47), M2(47)>>

\* C4: a pass reads as parents exactly the slots 0, 1, 2, ... below the
\* pre-pass triangle count, in this order and each once, all of them by the
\* end of the pass; a triangle appended during the pass is not written again
\* in that pass.
C4_ParentsInOrder ==
    /\ Len(parents) <= T0
    /\ \A k \in 1..Len(parents) : parents[k] = k - 1
    /\ (pc = "subdivide" => Len(parents) = i /\ num_triangle = T0)
    /\ (PassComplete => Len(parents) = T0)

C4_AppendedStable ==
    (pc = "subdivide" /\ pc' = "subdivide") =>
        \A t \in T0..(Len(indices) \div 3 - 1) : Tri(indices', t) = Tri(indices, t)

C4_OnePassOverOriginals == [](C4_ParentsInOrder) /\ [][C4_AppendedStable]_vars

C4_Witness ==
    /\ gen = "geo_sphere" /\ pc = "loop" /\ passes = 2
    /\ parents[80] = 79 /\ Len(indices) = 960

\* the parent whose step wrote triangle slot t, and the parent whose step
\* pushed the vertex with index idx >= V0
ParentOf(t) == IF t < T0 THEN t ELSE (t - T0) \div 3
Owner(idx) == (idx - V0) \div 3

\* the two ends of edge e of pre-pass triangle k; the midpoint of edge e is
\* pushed e-th: e = 0 is (v0, v1), e = 1 is (v1, v2), e = 2 is (v0, v2)
EdgeEnds(k, e) ==
    LET t == Tri(indices0, k)
    IN  IF e = 0 THEN {t[1], t[2]} ELSE IF e = 1 THEN {t[2], t[3]} ELSE {t[1], t[3]}

\* a pass is running or done and no vertex has been re-projected
PassSeen == (pc = "subdivide" \/ passes > 0) /\ InOrAfterPass

\* C5: subdivide welds nothing.  Every parent gets three vertex slots of its
\* own, a vertex appended in the pass is named only by the children of the
\* parent that pushed it, and where two pre-pass triangles share an edge the
\* two midpoints of that edge sit in two different slots with equal
\* attributes; one pass on the icosahedron gives 72 vertices.
C5_NoWelding ==
    PassSeen =>
        /\ Len(vertices) = V0 + 3 * Len(parents)
        /\ \A t \in 0..(Len(indices) \div 3 - 1) : \A c \in 1..3 :
              Tri(indices, t)[c] >= V0 => Owner(Tri(indices, t)[c]) = ParentOf(t)
        /\ Len(parents) > 0 =>
              LET q == Len(parents) - 1
              IN  \A k \in 0..(q - 1) : \A e \in 0..2 : \A f \in 0..2 :
                      EdgeEnds(k, e) = EdgeEnds(q, f) =>
                          /\ V0 + 3 * k + e # V0 + 3 * q + f
                          /\ vertices[V0 + 3 * k + e + 1] = vertices[V0 + 3 * q + f + 1]
        /\ (gen = "geo_sphere" /\ passes = 1 /\ pc = "loop") => Len(vertices) = 72

C5_Witness ==
    /\ gen = "geo_sphere" /\ passes = 1 /\ pc = "loop" /\ Len(vertices) = 72
    /\ EdgeEnds(0, 1) = EdgeEnds(1, 2)
    /\ vertices[M1(0) + 1] = vertices[M2(1) + 1]
    /\ \E t \in 0..79 : \E c \in 1..3 : Tri(indices, t)[c] = M1(0)
    /\ \E t \in 0..79 : \E c \in 1..3 : Tri(indices, t)[c] = M2(1)

\* 3-vectors
Cross(u, v) == << u[2] * v[3] - u[3] * v[2],
                  u[3] * v[1] - u[1] * v[3],
                  u[1] * v[2] - u[2] * v[1] >>
Dot(u, v) == u[1] * v[1] + u[2] * v[2] + u[3] * v[3]

\* the positions of the corners of the triangle in slot t
Corners(vs, is, t) == [c \in 1..3 |-> vs[Tri(is, t)[c] + 1].position]

\* the edge cross product (q1 - q0) x (q2 - q0) of a triangle given by its corners
EdgeCross(q) == Cross(VecSub(q[2], q[1]), VecSub(q[3], q[1]))

\* where x lies relative to the directed line e0 -> e1 in the plane with normal n:
\* positive on the left, seen against n
Side(e0, e1, x, n) == Dot(Cross(VecSub(e1, e0), VecSub(x, e0)), n)

\* some edge line of triangle q has triangle r on its outer side
EdgeSeparates(q, r, n) ==
    \E c \in 1..3 : \A d \in 1..3 : Side(q[c], q[(c % 3) + 1], r[d], n) <= 0

\* the four child slots of parent k
ChildSlots(k) == {k, T0 + 3 * k, T0 + 3 * k + 1, T0 + 3 * k + 2}

\* C6: subdivide preserves winding.  For every non-degenerate parent, each of
\* its four children, in its listed index order, has an edge cross product
\* equal to a quarter of the parent's; every child lies in the parent, and any
\* two children are separated by an edge line of one of them, so the four
\* children tile the parent.
C6_WindingAndTiling ==
    PassSeen =>
        \A k \in 0..(Len(parents) - 1) :
            LET p == Corners(vertices0, indices0, k)
                n == EdgeCross(p)
            IN  n # <<0, 0, 0>> =>
                  /\ \A s \in ChildSlots(k) :
                        LET q == Corners(vertices, indices, s)
                        IN  /\ [c \in 1..3 |-> 4 * EdgeCross(q)[c]] = n
                            /\ \A c \in 1..3 :
                                  /\ Dot(VecSub(q[c], p[1]), n) = 0
                                  /\ Side(p[1], p[2], q[c], n) >= 0
                                  /\ Side(p[2], p[3], q[c], n) >= 0
                                  /\ Side(p[3], p[1], q[c], n) >= 0
                  /\ \A s \in ChildSlots(k) : \A t \in ChildSlots(k) :
                        s # t =>
                            LET q == Corners(vertices, indices, s)
                                r == Corners(vertices, indices, t)
                            IN  EdgeSeparates(q, r, n) \/ EdgeSeparates(r, q, n)

C6_Witness ==
    /\ gen = "mesh" /\ pc = "done" /\ passes = 1 /\ T0 = 2
    /\ Tri(indices0, 0) = <<0, 1, 2>> /\ Tri(indices0, 1) = <<2, 1, 0>>
    /\ EdgeCross(Corners(vertices0, indices0, 0)) = <<0, -32, 64>>
    /\ EdgeCross(Corners(vertices, indices, 3)) = <<0, -8, 16>>
    /\ EdgeCross(Corners(vertices, indices, 6)) = <<0, 8, -16>>

\* m is, in every component of every attribute, the arithmetic mean of x and y
IsMean(m, x, y) ==
    /\ DOMAIN m = {"position", "normal", "tangent", "tex_coord"}
    /\ \A f \in DOMAIN m :
          /\ DOMAIN m[f] = DOMAIN x[f]
          /\ \A c \in DOMAIN m[f] : 2 * m[f][c] = x[f][c] + y[f][c]

\* C7: the three vertices pushed for a parent (v0, v1, v2) are, in push order,
\* the midpoints of (v0, v1), (v1, v2) and (v0, v2): in every component of
\* position, normal, tangent and tex_coord the plain mean of the two pre-pass
\* values, not renormalized.
C7_MidpointsAreMeans ==
    PassSeen =>
        \A k \in 0..(Len(parents) - 1) :
            LET v0 == vertices0[Tri(indices0, k)[1] + 1]
                v1 == vertices0[Tri(indices0, k)[2] + 1]
                v2 == vertices0[Tri(indices0, k)[3] + 1]
            IN  /\ IsMean(vertices[M0(k) + 1], v0, v1)
                /\ IsMean(vertices[M1(k) + 1], v1, v2)
                /\ IsMean(vertices[M2(k) + 1], v0, v2)

C7_Witness ==
    /\ gen = "brick" /\ pc = "done" /\ passes = 1
    /\ vertices0[1].position = <<-One, -One, -One>>
    /\ vertices0[2].position = <<-One, One, -One>>
    /\ vertices0[3].position = <<One, One, -One>>
    /\ vertices[25].position = <<-One, 0, -One>>
    /\ vertices[26].position = <<0, One, -One>>
    /\ vertices[27].position = <<0, 0, -One>>
    /\ vertices[27].normal = <<0, 0, -One>>
    /\ vertices[27].tex_coord = <<One \div 2, One \div 2>>

\* C8: get_middle! is commutative and reads only: get_middle!(a, b) and
\* get_middle!(b, a) agree in every component of every attribute, and a and b
\* are what they were before.
C8_MidpointCommutes ==
    [][pc' = "mid_done" => (m_ab' = m_ba' /\ a' = a /\ b' = b)]_vars

C8_Witness ==
    /\ pc = "mid_done" /\ m_ab = m_ba
    /\ a.position # b.position /\ a.normal # b.normal
    /\ a.tangent # b.tangent /\ a.tex_coord # b.tex_coord
    /\ m_ab.normal # a.normal /\ m_ab.normal # b.normal

\* C9: a subdivide pass leaves the vertices that were there when it started
\* where they were and as they were; what it pushes gets the indices from the
\* pre-pass vertex count on.
C9_OldVerticesKept ==
    PassSeen =>
        /\ Len(vertices) >= V0
        /\ \A k \in 1..V0 : vertices[k] = vertices0[k]
        /\ Len(vertices) = V0 + 3 * Len(parents)

C9_Witness ==
    /\ gen = "geo_sphere" /\ pc = "loop" /\ passes = 2
    /\ V0 = 72 /\ Len(vertices) = 312 /\ vertices[72] = vertices0[72]

\* 4^n
RECURSIVE Pow4(_)
Pow4(n) == IF n = 0 THEN 1 ELSE 4 * Pow4(n - 1)

\* C10: brick(w, h, d, n) runs subdivide n times on the box of 24 vertices and
\* 12 triangles: n = 0 returns the box itself (24 vertices, 36 indices),
\* n = 1 returns 60 vertices and 144 indices, and for every n the result has
\* 12 * 4^n triangles and 24 + 12 * (4^n - 1) vertices.
C10_BrickCounts ==
    /\ (gen = "brick" /\ pc = "loop" /\ passes = 0) =>
          Len(vertices) = 24 /\ Len(indices) = 36
    /\ (gen = "brick" /\ pc = "done") =>
          /\ passes = subdivision
          /\ Len(indices) = 3 * 12 * Pow4(subdivision)
          /\ Len(vertices) = 24 + 12 * (Pow4(subdivision) - 1)
          /\ subdivision = 0 =>
                /\ Len(vertices) = 24 /\ Len(indices) = 36
                /\ indices = BrickIndices /\ parents = <<>>
          /\ subdivision = 1 => Len(vertices) = 60 /\ Len(indices) = 144

C10_Witness ==
    /\ gen = "brick" /\ pc = "done" /\ subdivision = 2 /\ passes = 2
    /\ Len(vertices) = 204 /\ Len(indices) = 576

\* the cross and dot products of 3-vectors of f32 values
FCross(u, v) == << FMul(u[2], v[3]) - FMul(u[3], v[2]),
                   FMul(u[3], v[1]) - FMul(u[1], v[3]),
                   FMul(u[1], v[2]) - FMul(u[2], v[1]) >>
FDot(u, v) == FMul(u[1], v[1]) + FMul(u[2], v[2]) + FMul(u[3], v[3])

\* the box as brick built it, before any subdivide call
UndividedBox == gen = "brick" /\ pc = "loop" /\ passes = 0

\* C11: every one of the 12 triangles of the undivided box is wound
\* counter-clockwise seen from outside (right-handed): its edge cross product
\* (p1 - p0) x (p2 - p0) has a strictly positive dot product with the normal
\* stored on each of its three vertices, for the positive sizes called with.
C11_BoxWinding ==
    UndividedBox =>
        /\ Len(indices) = 36
        /\ \A t \in 0..11 :
              LET q == Corners(vertices, indices, t)
                  n == FCross(VecSub(q[2], q[1]), VecSub(q[3], q[1]))
              IN  \A c \in 1..3 : FDot(n, vertices[Tri(indices, t)[c] + 1].normal) > 0

C11_Witness ==
    /\ UndividedBox /\ width = One /\ height = 2 * One /\ depth = One
    /\ Tri(indices, 0) = <<0, 1, 2>>
    /\ FCross(VecSub(Corners(vertices, indices, 0)[2], Corners(vertices, indices, 0)[1]),
              VecSub(Corners(vertices, indices, 0)[3], Corners(vertices, indices, 0)[1]))
          = <<0, 0, -2 * One>>
    /\ vertices[1].normal = <<0, 0, -One>>
    /\ Tri(indices, 7) = <<12, 14, 15>>

\* the normal and tangent of the six faces: front, back, top, bottom, left, right
BoxFaces ==
    << [normal |-> <<0, 0, -One>>, tangent |-> <<One, 0, 0>>],
       [normal |-> <<0, 0, One>>,  tangent |-> <<-One, 0, 0>>],
       [normal |-> <<0, One, 0>>,  tangent |-> <<One, 0, 0>>],
       [normal |-> <<0, -One, 0>>, tangent |-> <<-One, 0, 0>>],
       [normal |-> <<-One, 0, 0>>, tangent |-> <<0, 0, -One>>],
       [normal |-> <<One, 0, 0>>,  tangent |-> <<0, 0, One>>] >>

\* vertex v carries the normal and tangent of face f, lies on the plane of
\* face f of the box of the sizes called with, and has its tex_coord in [0, 1]
OnFace(v, f) ==
    /\ v.normal = f.normal
    /\ v.tangent = f.tangent
    /\ Dot(v.position, f.normal) =
          Abs(f.normal[1]) * Half(width) + Abs(f.normal[2]) * Half(height)
          + Abs(f.normal[3]) * Half(depth)
    /\ \A c \in 1..2 : v.tex_coord[c] >= 0 /\ v.tex_coord[c] <= One

\* C12: in the mesh brick returns, for any subdivision count, the three
\* vertices of every triangle carry the normal and the tangent of one of the
\* six faces and lie on that face's plane, every tex_coord component lies in
\* [0, 1], and the 4 original corners of each face carry that face's pair and
\* the four corners of the unit square.
C12_BoxFaces ==
    (gen = "brick" /\ pc = "done") =>
        /\ \A t \in 0..(Len(indices) \div 3 - 1) :
              \E f \in 1..6 :
                  \A c \in 1..3 : OnFace(vertices[Tri(indices, t)[c] + 1], BoxFaces[f])
        /\ \A f \in 1..6 :
              /\ \A k \in 1..4 : OnFace(vertices[4 * (f - 1) + k], BoxFaces[f])
              /\ {vertices[4 * (f - 1) + k].tex_coord : k \in 1..4}
                    = {<<0, 0>>, <<0, One>>, <<One, 0>>, <<One, One>>}

C12_Witness ==
    /\ gen = "brick" /\ pc = "done" /\ subdivision = 2 /\ Len(vertices) = 204
    /\ width = One /\ height = 2 * One /\ depth = 2 * One
    /\ \E k \in 25..204 :
          /\ vertices[k].normal = <<0, One, 0>>
          /\ vertices[k].position[2] = One
          /\ vertices[k].tex_coord = <<One \div 4, One \div 4>>

\* C13: geo_sphere(r, 0) yields the 12 vertices and 20 triangles (60
\* indices) of the icosahedron table, and geo_sphere(r, n) yields 20 * 4^n
\* triangles and 12 + 20 * (4^n - 1) vertices.
C13_GeoCounts ==
    /\ (gen = "geo_sphere" /\ pc = "loop" /\ passes = 0) =>
          Len(vertices) = 12 /\ Len(indices) = 60 /\ indices = GeoIndices
    /\ (gen = "geo_sphere" /\ pc = "done") =>
          /\ Len(indices) = 3 * 20 * Pow4(subdivision)
          /\ Len(vertices) = 12 + 20 * (Pow4(subdivision) - 1)
          /\ subdivision = 0 =>
                Len(vertices) = 12 /\ Len(indices) = 60 /\ indices = GeoIndices

C13_Witness ==
    /\ gen = "geo_sphere" /\ pc = "done" /\ subdivision = 2
    /\ Len(vertices) = 312 /\ Len(indices) = 960

\* the tolerance of the comparisons of f32 values: 1/256
Tolerance == One \div 256

Near(x, y) == Abs(x - y) <= Tolerance

\* C14: for the radii called with and every subdivision count, every vertex
\* the post-process has rewritten has a position of magnitude r and a normal
\* of magnitude 1 equal to position / r, within the tolerance.
C14_OnTheSphere ==
    (gen = "geo_sphere" /\ pc \in {"post", "done"}) =>
        \A k \in 1..Len(rewritten) :
            LET v == vertices[rewritten[k] + 1]
            IN  /\ Near(Magnitude(v.position), radius)
                /\ Near(Magnitude(v.normal), One)
                /\ \A c \in 1..3 : Near(v.normal[c], FDiv(v.position[c], radius))

C14_Witness ==
    /\ gen = "geo_sphere" /\ pc = "done" /\ subdivision = 2 /\ radius = 2 * One
    /\ Len(rewritten) = 312
    /\ Magnitude(vertices0[13].position) < One - 2 * Tolerance
    /\ Near(Magnitude(vertices[312].position), 2 * One)

\* C15: the post-process of geo_sphere changes no index and neither adds nor
\* removes a vertex: each of its steps leaves `indices` and the length of
\* `vertices` as they were and writes one slot only, so the counts and the
\* connectivity at the end are those the subdivision passes left.
C15_PostStep ==
    (pc = "post" /\ pc' \in {"post", "done"}) =>
        /\ indices' = indices
        /\ Len(vertices') = Len(vertices)
        /\ \A k \in 1..Len(vertices) :
              vertices'[k] # vertices[k] => (pc' = "post" /\ k = cursor + 1)

C15_TopologyKept == [][C15_PostStep]_vars

C15_Witness ==
    /\ gen = "geo_sphere" /\ pc = "done" /\ subdivision = 1
    /\ Len(rewritten) = 72 /\ Len(vertices) = 72 /\ Len(indices) = 240
    /\ vertices[13] # get_middle(GeoVertices[2], GeoVertices[5])
    /\ Tri(indices, 0) = <<1, 12, 14>>

\* C16: the post-process runs after the last subdivision pass and visits
\* every vertex once, in index order: original and midpoint vertices alike.
C16_PostAfterPasses ==
    /\ rewritten # <<>> => /\ gen = "geo_sphere"
                           /\ pc \in {"post", "done"}
                           /\ passes = subdivision
    /\ pc \in {"subdivide", "loop"} => rewritten = <<>>
    /\ pc = "post" => /\ Len(rewritten) = cursor
                      /\ passes = subdivision
    /\ \A k \in 1..Len(rewritten) : rewritten[k] = k - 1
    /\ (gen = "geo_sphere" /\ pc = "done") =>
          /\ Len(rewritten) = Len(vertices)
          /\ Len(vertices) = 12 + 20 * (Pow4(passes) - 1)

C16_Witness ==
    /\ gen = "geo_sphere" /\ pc = "post" /\ passes = 1 /\ subdivision = 1
    /\ cursor = 14 /\ Len(vertices) = 72
    /\ rewritten[14] = 13

SphereDone == gen = "sphere" /\ pc = "done"

\* C17 as the specification states it: sphere(r, slices, stacks) returns
\* slices * (stacks - 1) + 2 vertices, 26 for slices = 8 and stacks = 4.
C17_CountWithoutSeam ==
    SphereDone => /\ Len(vertices) = slice * (stack - 1) + 2
                  /\ (slice = 8 /\ stack = 4) => Len(vertices) = 26

\* C17: for slices >= 3 and stacks >= 2, sphere(r, slices, stacks) returns
\* (slices + 1) * (stacks - 1) + 2 vertices: every ring holds the seam column
\* twice; sphere(r, 8, 4) has 29 vertices.
C17_SphereVertexCount ==
    SphereDone => /\ Len(vertices) = (slice + 1) * (stack - 1) + 2
                  /\ (slice = 8 /\ stack = 4) => Len(vertices) = 29

C17_Witness == SphereDone /\ slice = 8 /\ stack = 4 /\ Len(vertices) = 29

\* the index of column jj of ring ii in the vertex sequence of sphere
RingIndex(ii, jj) == 1 + (ii - 1) * (slice + 1) + jj

\* C18: the vertex sequence of sphere is the north pole at index 0, then
\* stacks - 1 rings of slices + 1 vertices in increasing polar angle, ring i
\* column j at index 1 + (i - 1) * (slices + 1) + j, then the south pole at
\* the last index; columns 0 and slices of a ring are the same point of the
\* seam with tex_coord u = 0 and u = 1.
C18_SphereLayout ==
    SphereDone =>
        /\ Len(vertices) = RingIndex(stack - 1, slice) + 2
        /\ vertices[1].position = <<0, radius, 0>>
        /\ vertices[1].tex_coord = <<0, 0>>
        /\ vertices[Len(vertices)].position = <<0, -radius, 0>>
        /\ vertices[Len(vertices)].tex_coord = <<0, One>>
        /\ \A ii \in 1..(stack - 1) :
              LET first == vertices[RingIndex(ii, 0) + 1]
                  last == vertices[RingIndex(ii, slice) + 1]
              IN  /\ first.tex_coord[1] = 0
                  /\ Near(last.tex_coord[1], One)
                  /\ \A c \in 1..3 : Near(first.position[c], last.position[c])
                  /\ \A jj \in 0..slice :
                        LET v == vertices[RingIndex(ii, jj) + 1]
                        IN  /\ v = RingVertex(radius, slice, stack, ii, jj)
                            /\ Near(v.tex_coord[2], FDiv(ii * One, stack * One))
                            /\ Near(v.tex_coord[1], FDiv(jj * One, slice * One))
                            /\ v.position[2] < radius
                            /\ v.position[2] > -radius
                            /\ ii > 1 =>
                                  LET u == vertices[RingIndex(ii - 1, jj) + 1]
                                  IN  /\ u.tex_coord[2] < v.tex_coord[2]
                                      /\ u.position[2] > v.position[2]

C18_Witness ==
    /\ SphereDone /\ slice = 8 /\ stack = 4 /\ radius = 2 * One
    /\ Len(vertices) = 29
    /\ RingIndex(2, 8) = 18
    /\ vertices[10].tex_coord[1] \in (One - Tolerance)..(One + Tolerance)
    /\ vertices[11].tex_coord[1] = 0
    /\ vertices[29].position = <<0, -2 * One, 0>>

\* C19: sphere emits 2 * slices * (stacks - 1) triangles: slices triangles
\* of the top cap (each names index 0), then 2 * slices * (stacks - 2) of the
\* body (none names a pole), then slices of the bottom cap (each names the
\* last index); 144 indices for slices = 8, stacks = 4.
C19_SphereIndexCount ==
    SphereDone =>
        LET south == Len(vertices) - 1
            body == 2 * slice * (stack - 2)
            Names(t, k) == \E c \in 1..3 : Tri(indices, t)[c] = k
        IN  /\ Len(indices) = 3 * (2 * slice * (stack - 1))
            /\ Len(indices) = 3 * (slice + body + slice)
            /\ \A t \in 0..(slice - 1) : Names(t, 0) /\ ~Names(t, south)
            /\ \A t \in slice..(slice + body - 1) : ~Names(t, 0) /\ ~Names(t, south)
            /\ \A t \in (slice + body)..(2 * slice + body - 1) :
                  Names(t, south) /\ ~Names(t, 0)
            /\ (slice = 8 /\ stack = 4) => Len(indices) = 144

C19_Witness ==
    /\ SphereDone /\ slice = 8 /\ stack = 4 /\ Len(indices) = 144
    /\ Tri(indices, 7)[1] = 0
    /\ Tri(indices, 8)[1] = 1
    /\ Tri(indices, 39)[3] = 27
    /\ Tri(indices, 40)[1] = 28

TriSet(t) == {Tri(indices, t)[c] : c \in 1..3}

\* C20: every top-cap triangle names index 0 and two consecutive columns of
\* the first ring; the two triangles of the body quad of columns j, j + 1 of
\* rings i, i + 1 name exactly these 4 vertices and share one diagonal; every
\* bottom-cap triangle names the last index and two consecutive columns of
\* the last ring; the regions come in this order.
C20_SphereRegions ==
    SphereDone =>
        LET south == Len(vertices) - 1
            body == 2 * slice * (stack - 2)
        IN  /\ \A t \in 0..(slice - 1) :
                  TriSet(t) = {0, RingIndex(1, t), RingIndex(1, t + 1)}
            /\ \A ii \in 1..(stack - 2) : \A jj \in 0..(slice - 1) :
                  LET t == slice + 2 * ((ii - 1) * slice + jj)
                      quad == {RingIndex(ii, jj), RingIndex(ii, jj + 1),
                               RingIndex(ii + 1, jj), RingIndex(ii + 1, jj + 1)}
                  IN  /\ TriSet(t) \cup TriSet(t + 1) = quad
                      /\ Cardinality(TriSet(t)) = 3
                      /\ Cardinality(TriSet(t + 1)) = 3
                      /\ TriSet(t) \cap TriSet(t + 1)
                            = {RingIndex(ii, jj + 1), RingIndex(ii + 1, jj)}
            /\ \A c \in 0..(slice - 1) :
                  TriSet(slice + body + c)
                     = {south, RingIndex(stack - 1, c), RingIndex(stack - 1, c + 1)}
            /\ Len(indices) = 3 * (2 * slice + body)

C20_Witness ==
    /\ SphereDone /\ slice = 3 /\ stack = 3
    /\ Tri(indices, 2) = <<0, 4, 3>>
    /\ Tri(indices, 3) = <<1, 2, 5>>
    /\ Tri(indices, 4) = <<5, 2, 6>>
    /\ Tri(indices, 11) = <<9, 7, 8>>

\* the first index of triangle t, the centre of a fan
FanCentre(t) == Tri(indices, t)[1]

\* C21: in every mesh sphere returns the first vertex is at (0, r, 0) and
\* the last at (0, -r, 0); every triangle of the top cap has the first vertex
\* as its fan centre, every triangle of the bottom cap the last vertex, and
\* no other vertex is at a pole or is the centre of a cap triangle.
C21_SpherePoles ==
    SphereDone =>
        LET last == Len(vertices)
            caps == (0..(slice - 1))
                       \cup ((Len(indices) \div 3 - slice)..(Len(indices) \div 3 - 1))
        IN  /\ vertices[1].position = <<0, radius, 0>>
            /\ vertices[last].position = <<0, -radius, 0>>
            /\ \A t \in 0..(slice - 1) : FanCentre(t) = 0
            /\ \A t \in (Len(indices) \div 3 - slice)..(Len(indices) \div 3 - 1) :
                  FanCentre(t) = last - 1
            /\ {FanCentre(t) : t \in caps} = {0, last - 1}
            /\ \A t \in caps : \A c \in 2..3 : Tri(indices, t)[c] \notin {0, last - 1}
            /\ \A k \in 2..(last - 1) :
                  /\ vertices[k].position # <<0, radius, 0>>
                  /\ vertices[k].position # <<0, -radius, 0>>

C21_Witness ==
    /\ SphereDone /\ slice = 5 /\ stack = 3 /\ radius = 2 * One
    /\ vertices[1].position = <<0, 2 * One, 0>>
    /\ vertices[14].position = <<0, -2 * One, 0>>
    /\ FanCentre(4) = 0
    /\ FanCentre(15) = 13
    /\ Len(indices) = 60

\* the preconditions of the generators
ValidArguments ==
    /\ gen = "sphere" => slice >= 3 /\ stack >= 2 /\ radius > 0
    /\ gen = "brick" => width > 0 /\ height > 0 /\ depth > 0

\* C22: a generator called with a violated precondition fails before any
\* vertex or index is produced and never returns a mesh.
C22_FailFast ==
    (gen \in {"sphere", "brick"} /\ ~ValidArguments) =>
        /\ pc = "panic"
        /\ vertices = <<>>
        /\ indices = <<>>

\* the bytes attribute k of the vertex in slot n takes in a vertex buffer
\* laid out by the descriptor d
AttributeBytes(d, n, k) ==
    LET from == n * d.array_stride + d.attributes[k].offset
    IN  from..(from + FormatSize(d.attributes[k].format) - 1)

\* C23: the descriptor lists position, normal, tangent, tex_coord at byte
\* offsets 0, 12, 24, 36 with formats 3, 3, 3, 2 float32 at shader locations
\* 0..3; the stride is 44 bytes, the sum of the attribute sizes; in the
\* buffer of a mesh no two attribute ranges overlap and together they are
\* all the bytes of the buffer.
C23_VertexLayout ==
    LET d == desc
        n == Len(vertices)
    IN  /\ Len(d.attributes) = 4
        /\ [k \in 1..4 |-> d.attributes[k].offset] = <<0, 12, 24, 36>>
        /\ [k \in 1..4 |-> d.attributes[k].format] = <<"Float3", "Float3", "Float3", "Float2">>
        /\ [k \in 1..4 |-> d.attributes[k].shader_location] = <<0, 1, 2, 3>>
        /\ [k \in 1..4 |-> VertexFields[k].name] = <<"position", "normal", "tangent", "tex_coord">>
        /\ \A k \in 1..4 : /\ d.attributes[k].offset = FieldOffset(k)
                           /\ FormatSize(d.attributes[k].format) = SizeOfArray(VertexFields[k].len)
        /\ d.array_stride = 44
        /\ d.array_stride = FormatSize(d.attributes[1].format) + FormatSize(d.attributes[2].format)
                               + FormatSize(d.attributes[3].format) + FormatSize(d.attributes[4].format)
        /\ \A k \in 1..4, l \in 1..4 :
              k # l => AttributeBytes(d, 0, k) \cap AttributeBytes(d, 0, l) = {}
        /\ n \in 1..24 =>
              /\ UNION {AttributeBytes(d, m, k) : m \in 0..(n - 1), k \in 1..4}
                    = 0..(n * SizeOfVertex - 1)
              /\ \A m \in 0..(n - 2) :
                    AttributeBytes(d, m, 4) \cap AttributeBytes(d, m + 1, 1) = {}

C23_Witness ==
    /\ gen = "brick" /\ pc = "done" /\ Len(vertices) = 24
    /\ AttributeBytes(desc, 23, 4) = 1048..1055
    /\ AttributeBytes(desc, 1, 3) = 68..79

\* the instant total_time() measures to
MeasuredTo == IF timer.stopped THEN timer.stop_time ELSE timer.curr_time

\* total_time() is compared with the clock where the timer is up to date:
\* while it is stopped, and right after an operation that read the clock
UpToDate == last_op # "none" /\ (timer.stopped \/ timer.curr_time = now)

\* C24: after any sequence of Timer operations total_time() returns the
\* time passed since the most recent reset (or new) while the timer was not
\* stopped.
C24_TotalTime == UpToDate => total_time(timer) = ran

\* C25: paused_duration never exceeds the interval from base_time to the
\* instant total_time() measures to, so total_time() never panics.
C25_NoUnderflow ==
    last_op # "none" =>
        /\ timer.paused_duration <= MeasuredTo - timer.base_time
        /\ total_time(timer) # Panic

\* C26: stop() on a stopped timer and start() on a running timer change
\* nothing; tick() on a stopped timer sets delta_time to zero and leaves the
\* rest, curr_time included; while the timer is stopped total_time() does
\* not change, and the start() that ends the pause leaves total_time() at
\* the value it had right after the stop().
C26_TimerStep ==
    /\ (last_op' = "stop" /\ timer.stopped) => timer' = timer
    /\ (last_op' = "start" /\ ~timer.stopped) => timer' = timer
    /\ (last_op' = "tick" /\ timer.stopped) =>
          /\ timer'.delta_time = 0
          /\ timer'.curr_time = timer.curr_time
          /\ timer' = [timer EXCEPT !.delta_time = 0]
    /\ (timer.stopped /\ timer'.stopped) => total_time(timer') = total_time(timer)
    /\ (last_op' = "start" /\ timer.stopped) =>
          /\ ~timer'.stopped
          /\ total_time(timer') = total_time(timer)
          /\ total_time(timer') = total_at_stop

C26_StopStartTick == [][C26_TimerStep]_vars

C26_Witness ==
    /\ last_op = "start" /\ ~timer.stopped
    /\ timer.paused_duration = 2
    /\ timer.stop_time = 1
    /\ now = 3
    /\ total_at_stop = 1
    /\ total_time(timer) = 1

\* C27: update_all passes every object the same controller, the one it was
\* called on, and only then sets last_cursor: the delta the objects see is
\* the displacement of the CursorMoved events since the previous update_all,
\* it is zero when there was none, and every displacement is shown once.
C27_UpdateStep ==
    /\ ctl_op' = "update_all" =>
          /\ Len(seen') >= 1
          /\ \A o \in 1..Len(seen') :
                /\ seen'[o] = controller
                /\ CursorDelta(seen'[o]) = pending
                /\ ctl_op = "update_all" => CursorDelta(seen'[o]) = <<0, 0>>
          /\ controller'.last_cursor = controller.current_cursor
          /\ CursorDelta(controller') = <<0, 0>>
          /\ pending' = <<0, 0>>
    /\ << consumed'[1] + pending'[1], consumed'[2] + pending'[2] >>
          = controller'.current_cursor
    /\ ctl_op' # "update_all" => consumed' = consumed

C27_CursorDelta == [][C27_UpdateStep]_vars

C27_Witness ==
    /\ ctl_op = "update_all"
    /\ Len(seen) = 2
    /\ seen[1] = seen[2]
    /\ CursorDelta(seen[2]) = <<1, -1>>
    /\ controller.dragged
    /\ controller.last_cursor = <<1, 0>>
    /\ consumed = <<1, 0>>

\* every triangle of the index sequence names three different indices
AllDistinct(is) ==
    \A t \in 0..(Len(is) \div 3 - 1) : Cardinality({Tri(is, t)[c] : c \in 1..3}) = 3

\* the vertex indices the index sequence names
Referenced(is) == {is[k] : k \in 1..Len(is)}

\* C28: every triangle of a mesh of brick, geo_sphere and sphere names three
\* pairwise distinct indices and every vertex of it is named by a triangle;
\* a subdivide pass on triangles of distinct indices leaves triangles of
\* distinct indices, names every vertex it appended, and every vertex named
\* before the pass is named after it.
C28_DistinctAndReferenced ==
    /\ (gen \in {"brick", "geo_sphere", "sphere"} /\ pc \in {"loop", "post", "done"}) =>
          /\ AllDistinct(indices)
          /\ Referenced(indices) = 0..(Len(vertices) - 1)
    /\ PassComplete =>
          /\ AllDistinct(indices0) => AllDistinct(indices)
          /\ Referenced(indices0) \subseteq Referenced(indices)
          /\ V0..(Len(vertices) - 1) \subseteq Referenced(indices)

C28_Witness ==
    /\ gen = "geo_sphere" /\ pc = "done" /\ passes = 2
    /\ Len(vertices) = 312
    /\ AllDistinct(indices0)
    /\ Tri(indices, 319) = <<311, 310, 7>>
    /\ 0 \in Referenced(indices)

====
